---- MODULE Spec2Model ----
(***************************************************************************)
(* Supplement Tracker (src/main.py): the inventory of supplements, its     *)
(* save/load codec with the time-based decay of the counts, and the        *)
(* BackupManager that snapshots the saved file, rotates old snapshots and  *)
(* restores from them.                                                     *)
(*                                                                         *)
(* Time is the local clock in seconds since the origin of the model; a     *)
(* date string "%Y-%m-%d" is written as the number of the day, and a       *)
(* string that is no date as BadDate.  One action is one GUI handler, run  *)
(* to its end at one reading of the clock.                                 *)
(***************************************************************************)
EXTENDS Integers, Sequences, FiniteSets, TLC

VARIABLES
    now,              \* the clock: datetime.now(), seconds since the origin
    supplements,      \* SupplementTracker.supplements
    files,            \* the inventory files on disk, by path
    settings,         \* SupplementTracker.settings (shared with BackupManager)
    settings_file,    \* settings.json
    backup_index,     \* BackupManager.backup_index['backups']
    index_file,       \* <backup_dir>/backup_index.json
    backup_files,     \* the artifacts in the backup directory, by filename
    last_backup_time, \* BackupManager.last_backup_time (epoch seconds)
    backup_dir_ok,    \* whether the backup directory can be written
    backup_settings,  \* BackupManager.backup_settings
    theme_settings,   \* ModernTheme.settings
    shelved,          \* the backup directory the manager does not work in
    op                \* the handler that ran last, and how it ended

vars == <<now, supplements, files, settings, settings_file, backup_index,
          index_file, backup_files, last_backup_time, backup_dir_ok,
          backup_settings, theme_settings, shelved, op>>

----------------------------------------------------------------------------
(* Bounds of the model *)

MaxDay == 2
MaxItems == 2
MaxKeep == 2
MaxCount == 3
BackupDays == 1       \* the last day of the clock where the backups are followed

(* Program constants *)

SecondsPerDay == 86400
SecondsPerMinute == 60
DefaultMaxBackups == 5
DefaultInterval == 60

\* time.time() at the origin of the model's clock: any instant of the epoch
\* far later than 0, the value last_backup_time is constructed with
EpochAtOrigin == 1000000

TimesOfDay == {0, 3600}
Instants == {d * SecondsPerDay + t : d \in 0..MaxDay, t \in TimesOfDay}

DefaultFile == "supplements.sup"
OtherFile == "other.sup"
Paths == {DefaultFile, OtherFile}
\* a path whose extension is ".gz", and the paths of the disk
GzFile == "other.gz"
Disk == Paths \cup {GzFile}
None == "None"
\* the backup directory of the default settings, and a second directory
DefaultDir == "./backup"
OtherDir == "elsewhere"
Dirs == {DefaultDir, OtherDir}
BadDate == -1

max(a, b) == IF a >= b THEN a ELSE b
min(a, b) == IF a <= b THEN a ELSE b

----------------------------------------------------------------------------
(* Dates *)

\* datetime.now().strftime("%Y-%m-%d"): the date of an instant, its time of
\* day dropped
strftime(t) == t \div SecondsPerDay

\* datetime.strptime(s, "%Y-%m-%d"): midnight of the date
strptime(d) == d * SecondsPerDay

\* timedelta.days of (a - b): whole days, rounded towards minus infinity
timedelta_days(a, b) == (a - b) \div SecondsPerDay

\* time.time()
time_time(t) == EpochAtOrigin + t

----------------------------------------------------------------------------
(* Supplement *)

\* What the add/edit dialog holds when Save is pressed.  valid is whether
\* int() and float() accept the count, initial, cost and daily entries.
DialogInputs ==
    { [name |-> "a", count |-> 3, initial |-> 3, cost |-> 10,
       tags |-> <<"x", "x">>, link |-> "", daily |-> 1, auto |-> TRUE,
       valid |-> TRUE],
      [name |-> "b", count |-> 1, initial |-> 5, cost |-> 0,
       tags |-> <<"y", "x">>, link |-> "u", daily |-> 2, auto |-> TRUE,
       valid |-> TRUE],
      [name |-> "c", count |-> -1, initial |-> 0, cost |-> 10,
       tags |-> <<"">>, link |-> "", daily |-> 1, auto |-> FALSE,
       valid |-> TRUE],
      [name |-> "d", count |-> -1, initial |-> 3, cost |-> 0,
       tags |-> <<"x">>, link |-> "", daily |-> 0, auto |-> TRUE,
       valid |-> TRUE],
      [name |-> "a", count |-> 0, initial |-> 0, cost |-> 0,
       tags |-> <<"">>, link |-> "", daily |-> 0, auto |-> TRUE,
       valid |-> FALSE] }

\* Supplement.__init__
Supplement(name, current_count, initial_count, cost, tags, link, daily_dose, auto_decrement, t) ==
    [name |-> name, current_count |-> current_count,
     initial_count |-> initial_count, cost |-> cost, tags |-> tags,
     link |-> link, daily_dose |-> daily_dose,
     auto_decrement |-> auto_decrement, last_updated |-> strftime(t)]

\* Supplement.to_dict
to_dict(s) ==
    [name |-> s.name, current_count |-> s.current_count,
     initial_count |-> s.initial_count, cost |-> s.cost, tags |-> s.tags,
     link |-> s.link, daily_dose |-> s.daily_dose,
     auto_decrement |-> s.auto_decrement, last_updated |-> s.last_updated]

RequiredKeys == {"name", "current_count", "initial_count", "cost", "tags",
                 "link", "daily_dose", "last_updated"}

\* Supplement.from_dict raises KeyError unless every required key is there
from_dict_ok(data) == RequiredKeys \subseteq DOMAIN data

\* from_dict with the default taken whatever the record says
from_dict_always_auto(data, t) ==
    [Supplement(data.name, data.current_count, data.initial_count, data.cost,
                data.tags, data.link, data.daily_dose, TRUE, t)
     EXCEPT !.last_updated = data.last_updated]

\* Supplement.from_dict
from_dict(data, t) ==
    [Supplement(data.name, data.current_count, data.initial_count, data.cost,
                data.tags, data.link, data.daily_dose,
                IF "auto_decrement" \in DOMAIN data
                THEN data.auto_decrement ELSE TRUE, t)
     EXCEPT !.last_updated = data.last_updated]

\* The floats of days_remaining: num / den, den > 0, in lowest terms, and
\* float('inf') as 1 / 0.
RECURSIVE gcd(_, _)
gcd(a, b) == IF b = 0 THEN a ELSE gcd(b, a % b)

abs(a) == IF a < 0 THEN -a ELSE a

inf == [num |-> 1, den |-> 0]

\* a / b, b # 0
truediv(a, b) ==
    LET g == gcd(abs(a), abs(b))
        sign == IF b < 0 THEN -1 ELSE 1
    IN  [num |-> sign * (a \div g), den |-> sign * (b \div g)]

\* x < y
lt(x, y) == x.num * y.den < y.num * x.den

\* days_remaining with a zero dose taken for a count that is used up
days_remaining_empty_on_zero(s) ==
    IF s.daily_dose = 0
    THEN truediv(0, 1)
    ELSE truediv(s.current_count, s.daily_dose)

\* Supplement.days_remaining
days_remaining(s) ==
    IF s.daily_dose = 0
    THEN inf
    ELSE truediv(s.current_count, s.daily_dose)

\* days_passed with a started day counted as a whole one
days_passed_rounds_up(last_updated, t) ==
    timedelta_days(t + SecondsPerDay - 1, strptime(last_updated))

\* the days update_count finds passed since last_updated
days_passed(last_updated, t) == timedelta_days(t, strptime(last_updated))

\* update_count without its last line: last_updated is left as it was
update_count_keeps_date(s, t) ==
    IF ~s.auto_decrement
    THEN s
    ELSE LET doses_taken == days_passed(s.last_updated, t) * s.daily_dose
         IN  [s EXCEPT !.current_count = max(0, @ - doses_taken)]

\* update_count dating every item, whether it decrements or not
update_count_stamps_all(s, t) ==
    IF ~s.auto_decrement
    THEN [s EXCEPT !.last_updated = strftime(t)]
    ELSE LET doses_taken == days_passed(s.last_updated, t) * s.daily_dose
         IN  [s EXCEPT !.current_count = max(0, @ - doses_taken),
                       !.last_updated = strftime(t)]

\* Supplement.update_count
update_count(s, t) ==
    IF ~s.auto_decrement
    THEN s
    ELSE LET doses_taken == days_passed(s.last_updated, t) * s.daily_dose
         IN  [s EXCEPT !.current_count = max(0, @ - doses_taken),
                       !.last_updated = strftime(t)]

----------------------------------------------------------------------------
(* Files.  A file is absent, holds text that is no JSON, or holds a JSON   *)
(* document; a gzip artifact holds the compressed bytes of another file.   *)

Absent == [kind |-> "absent"]
\* a file that is no JSON document, the empty file for one
NotJson == [kind |-> "text"]

\* json.dump(data, f)
json_dump(data) == [kind |-> "json", data |-> data]

\* json.load(f) raises JSONDecodeError unless the text is a JSON document
json_load_ok(content) == content.kind = "json"
json_load(content) == content.data

\* gzip.open(path, 'wb') / gzip.open(path, 'rb')
gzip_write(content) == [kind |-> "gzip", data |-> content]
gzip_read(content) == content.data

exists(fs, path) == path \in DOMAIN fs /\ fs[path] # Absent

\* The operations on the backup directory that can fail with an OSError:
\* the copy (or the gzip) of create_backup, the write of backup_index.json,
\* os.remove
Faults == {"copy", "index", "remove"}

\* the operations that fail in a handler: all of them when the directory
\* cannot be written
FaultsOf(dir_ok) == IF dir_ok THEN {} ELSE Faults

\* The state a handler works on: the variables but the clock, and err,
\* whether an error dialog was shown (handle_error, messagebox.showerror),
\* made, the artifacts create_backup has returned, and faults, the
\* operations on the backup directory that fail while the handler runs.
Cur ==
    [supplements |-> supplements, files |-> files, settings |-> settings,
     settings_file |-> settings_file, backup_index |-> backup_index,
     index_file |-> index_file, backup_files |-> backup_files,
     last_backup_time |-> last_backup_time, backup_dir_ok |-> backup_dir_ok,
     backup_settings |-> backup_settings, theme_settings |-> theme_settings,
     shelved |-> shelved,
     err |-> FALSE, made |-> <<>>, faults |-> FaultsOf(backup_dir_ok)]

\* save_settings(settings)
save_settings(s) == [s EXCEPT !.settings_file = json_dump(s.settings)]

\* handle_error(...)
handle_error(s) == [s EXCEPT !.err = TRUE]

----------------------------------------------------------------------------
(* BackupManager *)

\* os.path.splitext(path)[1]
splitext(path) == IF path = GzFile THEN ".gz" ELSE ".sup"

\* The name of an artifact: backup_<stamp><ext>, backup_<stamp>_<counter><ext>
\* when counter > 0, with ".gz" appended when gz.
BackupName(stamp, counter, ext, gz) ==
    [stamp |-> stamp, counter |-> counter, ext |-> ext, gz |-> gz]

\* backup_path.endswith('.gz')
endswith_gz(name) == name.gz \/ name.ext = ".gz"

\* BackupManager._save_backup_index; a failure to write is logged
save_backup_index(s) ==
    IF "index" \notin s.faults
    THEN [s EXCEPT !.index_file = json_dump(s.backup_index)]
    ELSE s

\* the collision loop of generate_backup_filename: the first name from
\* counter on that os.path.exists does not find
RECURSIVE FreeName(_, _, _, _)
FreeName(present, stamp, ext, counter) ==
    IF BackupName(stamp, counter, ext, FALSE) \in present
    THEN FreeName(present, stamp, ext, counter + 1)
    ELSE BackupName(stamp, counter, ext, FALSE)

\* BackupManager.generate_backup_filename; the stamp "%Y%m%d_%H%M%S" is the
\* second of the clock
generate_backup_filename(s, source_file, t) ==
    FreeName(DOMAIN s.backup_files, t, splitext(source_file), 0)

\* should_create_backup without its first test: the interval decides alone
should_create_backup_interval_only(s, is_auto_save, t) ==
    LET min_interval ==
            s.backup_settings.min_backup_interval_minutes * SecondsPerMinute
    IN  time_time(t) - s.last_backup_time >= min_interval

\* BackupManager.should_create_backup
should_create_backup(s, is_auto_save, t) ==
    IF ~is_auto_save
    THEN TRUE
    ELSE LET min_interval ==
                 s.backup_settings.min_backup_interval_minutes * SecondsPerMinute
         IN  time_time(t) - s.last_backup_time >= min_interval

\* The 'timestamp' of a record is datetime.now().isoformat(): timestamp is
\* its second and micro the order, within the second, of the records made
\* in it.  NotBefore(a, b) is a['timestamp'] >= b['timestamp'].
NotBefore(a, b) ==
    \/ a.timestamp > b.timestamp
    \/ a.timestamp = b.timestamp /\ a.micro >= b.micro

\* Only the order of the microseconds is kept: the records of the second t
\* are numbered again from 0 in their order, so that the next one, made
\* now, is the latest of them with NextMicro.
Renumbered(index, t) ==
    [i \in 1..Len(index) |->
        IF index[i].timestamp # t
        THEN index[i]
        ELSE [index[i] EXCEPT !.micro =
                Cardinality({j \in 1..Len(index) :
                               /\ index[j].timestamp = t
                               /\ index[j].micro < index[i].micro})]]

NextMicro(index, t) ==
    Cardinality({i \in 1..Len(index) : index[i].timestamp = t})

\* sorted(..., key=timestamp, reverse=True) is stable: x goes behind every
\* record whose timestamp is not smaller
RECURSIVE InsertDesc(_, _)
InsertDesc(sorted, x) ==
    IF sorted = <<>> THEN <<x>>
    ELSE IF NotBefore(Head(sorted), x)
         THEN <<Head(sorted)>> \o InsertDesc(Tail(sorted), x)
         ELSE <<x>> \o sorted

RECURSIVE SortDesc(_)
SortDesc(seq) ==
    IF seq = <<>> THEN <<>>
    ELSE InsertDesc(SortDesc(SubSeq(seq, 1, Len(seq) - 1)), seq[Len(seq)])

\* BackupManager.list_backups
list_backups(index) == SortDesc(index)

\* the artifacts left when the files of the records are removed; a failure
\* of os.remove is logged
RemoveFiles(fs, records, ok) ==
    LET gone == IF ok THEN {records[i].filename : i \in 1..Len(records)}
                ELSE {}
    IN  [f \in DOMAIN fs \ gone |-> fs[f]]

\* cleanup_old_backups taking the limit for the number of old backups to
\* keep beside the new one
cleanup_old_backups_keeps_one_more(s) ==
    LET backups == list_backups(s.backup_index)
        max_backups == s.backup_settings.max_backups + 1
    IN  IF Len(backups) <= max_backups
        THEN s
        ELSE save_backup_index(
               [s EXCEPT
                  !.backup_files =
                      RemoveFiles(@, SubSeq(backups, max_backups + 1, Len(backups)),
                                  "remove" \notin s.faults),
                  !.backup_index = SubSeq(backups, 1, max_backups)])

\* BackupManager.cleanup_old_backups
cleanup_old_backups(s) ==
    LET backups == list_backups(s.backup_index)
        max_backups == s.backup_settings.max_backups
    IN  IF Len(backups) <= max_backups
        THEN s
        ELSE save_backup_index(
               [s EXCEPT
                  !.backup_files =
                      RemoveFiles(@, SubSeq(backups, max_backups + 1, Len(backups)),
                                  "remove" \notin s.faults),
                  !.backup_index = SubSeq(backups, 1, max_backups)])

\* the artifact create_backup writes: the copy, or its gzip under <name>.gz
StoreArtifact(s, backup_file, content) ==
    IF s.backup_settings.compression_enabled
    THEN [name |-> [backup_file EXCEPT !.gz = TRUE],
          content |-> gzip_write(content)]
    ELSE [name |-> backup_file, content |-> content]

\* the try block of create_backup up to the cleanup: the artifact is
\* written, its record appended, the index saved and last_backup_time set;
\* the path that will be returned is added to made
record_backup(s, source_file, is_auto_save, t) ==
    LET art == StoreArtifact(s, generate_backup_filename(s, source_file, t),
                             s.files[source_file])
        backup_info == [filename |-> art.name,
                        original_file |-> source_file,
                        timestamp |-> t,
                        micro |-> NextMicro(s.backup_index, t),
                        is_auto |-> is_auto_save]
        written == [f \in DOMAIN s.backup_files \cup {art.name} |->
                       IF f = art.name THEN art.content
                       ELSE s.backup_files[f]]
        indexed == save_backup_index(
                     [s EXCEPT !.backup_files = written,
                               !.backup_index =
                                   Append(Renumbered(@, t), backup_info)])
    IN  [indexed EXCEPT !.last_backup_time = time_time(t),
                        !.made = Append(@, art.name)]

\* the try block of create_backup: the backup is recorded and the old
\* backups are cleaned up.  The copy raises when it fails, and the
\* exception is logged: None is returned and made is as it was.
write_backup(s, source_file, is_auto_save, t) ==
    IF "copy" \in s.faults
    THEN s
    ELSE cleanup_old_backups(record_backup(s, source_file, is_auto_save, t))

\* create_backup without its second test: every save of an existing file
\* is backed up
create_backup_unthrottled(s, source_file, is_auto_save, t) ==
    IF ~exists(s.files, source_file)
    THEN s
    ELSE write_backup(s, source_file, is_auto_save, t)

\* create_backup without its except clause: the failure of the copy reaches
\* the caller, whose own except clause reports it
create_backup_raises(s, source_file, is_auto_save, t) ==
    IF ~exists(s.files, source_file)
    THEN s
    ELSE IF ~should_create_backup(s, is_auto_save, t)
    THEN s
    ELSE IF "copy" \in s.faults
    THEN handle_error(s)
    ELSE write_backup(s, source_file, is_auto_save, t)

\* create_backup taking the time of the attempt for the time of the last
\* backup, whether the copy was made or not
create_backup_marks_attempt(s, source_file, is_auto_save, t) ==
    IF ~exists(s.files, source_file)
    THEN s
    ELSE IF ~should_create_backup(s, is_auto_save, t)
    THEN s
    ELSE IF "copy" \in s.faults
    THEN [s EXCEPT !.last_backup_time = time_time(t)]
    ELSE write_backup(s, source_file, is_auto_save, t)

\* BackupManager.create_backup
create_backup(s, source_file, is_auto_save, t) ==
    IF ~exists(s.files, source_file)
    THEN s
    ELSE IF ~should_create_backup(s, is_auto_save, t)
    THEN s
    ELSE write_backup(s, source_file, is_auto_save, t)

\* restore_from_backup opening the target for writing before it looks for
\* the backup
restore_from_backup_truncates(s, backup_file, target_file) ==
    IF target_file \notin Disk
    THEN [state |-> s, ok |-> FALSE]
    ELSE IF backup_file \notin DOMAIN s.backup_files
    THEN [state |-> [s EXCEPT !.files[target_file] = NotJson], ok |-> FALSE]
    ELSE LET bytes == IF endswith_gz(backup_file)
                      THEN gzip_read(s.backup_files[backup_file])
                      ELSE s.backup_files[backup_file]
         IN  [state |-> [s EXCEPT !.files[target_file] = bytes], ok |-> TRUE]

\* BackupManager.restore_from_backup; ok is the value returned.  On a name
\* that ends with ".gz" the target is opened for writing before the first
\* read of the artifact, which raises when the artifact is no gzip file.
restore_from_backup(s, backup_file, target_file) ==
    IF backup_file \notin DOMAIN s.backup_files
    THEN [state |-> s, ok |-> FALSE]
    ELSE IF target_file \notin Disk
    THEN [state |-> s, ok |-> FALSE]
    ELSE IF endswith_gz(backup_file)
              /\ s.backup_files[backup_file].kind # "gzip"
    THEN [state |-> [s EXCEPT !.files[target_file] = NotJson], ok |-> FALSE]
    ELSE LET bytes == IF endswith_gz(backup_file)
                      THEN gzip_read(s.backup_files[backup_file])
                      ELSE s.backup_files[backup_file]
         IN  [state |-> [s EXCEPT !.files[target_file] = bytes], ok |-> TRUE]

----------------------------------------------------------------------------
(* SupplementTracker: saving, the display refresh, loading *)

\* the document save_supplements writes
SaveData(supps, t) ==
    [supplements |-> [i \in 1..Len(supps) |-> to_dict(supps[i])],
     save_date |-> strftime(t)]

\* save_supplements backing up whoever asked for the save
save_supplements_always_backs_up(s, filename, is_user_initiated, t) ==
    IF filename \notin Disk
    THEN handle_error(s)
    ELSE LET written == [s EXCEPT
                           !.files[filename] = json_dump(SaveData(s.supplements, t))]
             recorded == save_settings(
                           [written EXCEPT !.settings.last_file = filename])
         IN  create_backup(recorded, filename, TRUE, t)

\* SupplementTracker.save_supplements; open(None, 'w') raises
save_supplements(s, filename, is_user_initiated, t) ==
    IF filename \notin Disk
    THEN handle_error(s)
    ELSE LET written == [s EXCEPT
                           !.files[filename] = json_dump(SaveData(s.supplements, t))]
             recorded == save_settings(
                           [written EXCEPT !.settings.last_file = filename])
         IN  IF is_user_initiated
             THEN recorded
             ELSE create_backup(recorded, filename, TRUE, t)

\* the loop of update_days_until_empty from item k on
RECURSIVE min_days(_, _, _)
min_days(supps, k, least) ==
    IF k > Len(supps) THEN least
    ELSE LET days == days_remaining(supps[k])
         IN  min_days(supps, k + 1, IF lt(days, least) THEN days ELSE least)

\* the title without a next depletion
PlainTitle == [next_empty |-> FALSE]

\* SupplementTracker.update_days_until_empty: the title it sets, which
\* shows days with one decimal
update_days_until_empty(supps) ==
    IF supps = <<>>
    THEN PlainTitle
    ELSE LET least == min_days(supps, 1, inf)
         IN  IF least # inf
             THEN [next_empty |-> TRUE, days |-> least]
             ELSE PlainTitle

\* SupplementTracker.update_list: update_count on every item, then the
\* automatic save when there are items and a last file
update_list(s, t) ==
    LET updated == [s EXCEPT !.supplements =
                       [i \in 1..Len(@) |-> update_count(@[i], t)]]
    IN  IF updated.supplements # <<>> /\ updated.settings.last_file # None
        THEN save_supplements(updated, updated.settings.last_file, FALSE, t)
        ELSE updated

\* how load_supplements ends on a file
load_status(fs, filename) ==
    IF ~exists(fs, filename) THEN "absent"
    ELSE IF ~json_load_ok(fs[filename]) THEN "not_json"
    ELSE LET data == json_load(fs[filename])
         IN  IF "supplements" \notin DOMAIN data THEN "no_supplements"
             ELSE IF \E i \in 1..Len(data.supplements) :
                        ~from_dict_ok(data.supplements[i])
                  THEN "bad_item"
             ELSE IF "save_date" \notin DOMAIN data THEN "no_save_date"
             ELSE IF data.save_date = BadDate THEN "bad_date"
             ELSE "ok"

\* catch_up with the days counted from the item's own last_updated
catch_up_own_date(supp, days, t) ==
    [supp EXCEPT
       !.current_count = IF supp.auto_decrement
                         THEN max(0, @ - days_passed(supp.last_updated, t)
                                           * supp.daily_dose)
                         ELSE @,
       !.last_updated = strftime(t)]

\* catch_up with the days passed floored at 0
catch_up_clamps_days(supp, days, t) ==
    [supp EXCEPT
       !.current_count = IF supp.auto_decrement
                         THEN max(0, @ - max(0, days) * supp.daily_dose)
                         ELSE @,
       !.last_updated = strftime(t)]

\* the catch-up decay of load_supplements on one item
catch_up(supp, days, t) ==
    [supp EXCEPT
       !.current_count = IF supp.auto_decrement
                         THEN max(0, @ - days * supp.daily_dose)
                         ELSE @,
       !.last_updated = strftime(t)]

\* the except clause without its test of the filename
file_not_found_always_reports(s, filename) == handle_error(s)

\* load_supplements: except FileNotFoundError
file_not_found(s, filename) ==
    IF filename # DefaultFile THEN handle_error(s) ELSE s

\* SupplementTracker.load_supplements
load_supplements(s, filename, t) ==
    LET status == load_status(s.files, filename)
    IN  IF status = "absent"
        THEN file_not_found(s, filename)
        ELSE IF status \in {"not_json", "no_supplements", "bad_item"}
        THEN handle_error(s)
        ELSE LET data == json_load(s.files[filename])
                 read == [s EXCEPT !.supplements =
                            [i \in 1..Len(data.supplements) |->
                                from_dict(data.supplements[i], t)]]
             IN  IF status \in {"no_save_date", "bad_date"}
                 THEN handle_error(read)
                 ELSE LET days == timedelta_days(t, strptime(data.save_date))
                          decayed == [read EXCEPT !.supplements =
                                        [i \in 1..Len(@) |-> catch_up(@[i], days, t)]]
                          shown == update_list(decayed, t)
                      IN  IF filename # DefaultFile
                          THEN save_settings(
                                 [shown EXCEPT !.settings.last_file = filename])
                          ELSE shown

----------------------------------------------------------------------------
(* The handlers *)

Commit(s) ==
    /\ supplements' = s.supplements
    /\ files' = s.files
    /\ settings' = s.settings
    /\ settings_file' = s.settings_file
    /\ backup_index' = s.backup_index
    /\ index_file' = s.index_file
    /\ backup_files' = s.backup_files
    /\ last_backup_time' = s.last_backup_time
    /\ backup_dir_ok' = s.backup_dir_ok
    /\ backup_settings' = s.backup_settings
    /\ theme_settings' = s.theme_settings
    /\ shelved' = s.shelved

Ran(name, file, status, n, s) ==
    op' = [name |-> name, file |-> file, status |-> status, n |-> n,
           err |-> s.err, made |-> s.made]

\* the item the dialog builds from its entries
FromDialog(e, t) ==
    Supplement(e.name, e.count, e.initial, e.cost, e.tags, e.link, e.daily,
               e.auto, t)

\* show_add_dialog.save
add_supplement(s, e, t) ==
    IF ~e.valid
    THEN handle_error(s)
    ELSE update_list(
           save_supplements(
             [s EXCEPT !.supplements = Append(@, FromDialog(e, t))],
             DefaultFile, TRUE, t),
           t)

\* SupplementTracker.update_supplement, index counted from 1
update_supplement(s, index, e, t) ==
    IF ~e.valid
    THEN handle_error(s)
    ELSE LET updated_supplement ==
                 [FromDialog(e, t) EXCEPT
                    !.last_updated = s.supplements[index].last_updated]
         IN  update_list(
               save_supplements(
                 [s EXCEPT !.supplements[index] = updated_supplement],
                 DefaultFile, TRUE, t),
               t)

\* del self.supplements[index], index counted from 1
DeleteAt(supps, index) ==
    SubSeq(supps, 1, index - 1) \o SubSeq(supps, index + 1, Len(supps))

\* the loop of remove_selected over the selected rows, in the order of the
\* tree
RECURSIVE RemoveEach(_, _)
RemoveEach(supps, selected) ==
    IF selected = <<>> THEN supps
    ELSE LET index == Head(selected)
         IN  RemoveEach(IF 1 <= index /\ index <= Len(supps)
                        THEN DeleteAt(supps, index) ELSE supps,
                        Tail(selected))

\* the rows of a selection in the order of the tree
RECURSIVE InOrder(_)
InOrder(rows) ==
    IF rows = {} THEN <<>>
    ELSE LET first == CHOOSE r \in rows : \A q \in rows : r <= q
         IN  <<first>> \o InOrder(rows \ {first})

\* SupplementTracker.remove_selected, the question answered yes
remove_selected(s, rows, t) ==
    update_list(
      save_supplements(
        [s EXCEPT !.supplements = RemoveEach(@, InOrder(rows))],
        DefaultFile, TRUE, t),
      t)

\* SupplementTracker.save_with_feedback (Ctrl+S)
save_with_feedback(s, t) ==
    save_supplements(s, s.settings.last_file, TRUE, t)

\* SupplementTracker.save_as
save_as(s, filename, t) ==
    save_settings(
      [save_supplements(s, filename, TRUE, t) EXCEPT
         !.settings.last_file = filename])

\* show_backups.restore_backup on the row of backup, the question answered
\* yes
restore_backup(s, backup, t) ==
    LET last_file == s.settings.last_file
        kept == IF last_file # None
                THEN create_backup(s, last_file, FALSE, t)
                ELSE s
        restored == restore_from_backup(kept, backup.filename, last_file)
    IN  IF restored.ok
        THEN load_supplements(restored.state, last_file, t)
        ELSE handle_error(restored.state)

\* show_settings.save_settings.  Inside the function the name save_settings
\* is the function itself, which takes no argument: the call that is meant
\* to write settings.json raises TypeError once self.settings['backup'] has
\* been replaced, and the except clause reports it.  The file is not
\* written and the manager keeps the settings it has.
save_backup_settings(s, max_backups, backup_dir, compression_enabled, interval) ==
    handle_error(
      [s EXCEPT !.settings.backup =
         [max_backups |-> max_backups,
          backup_dir |-> backup_dir,
          compression_enabled |-> compression_enabled,
          min_backup_interval_minutes |-> interval]])

\* ModernTheme.toggle_theme: the theme is set in the settings the theme
\* object loaded when it was made, and these are written
toggle_theme(s) ==
    LET toggled == [s.theme_settings EXCEPT
                      !.theme = IF @ = "dark" THEN "light" ELSE "dark"]
    IN  [s EXCEPT !.theme_settings = toggled,
                  !.settings_file = json_dump(toggled)]

\* show_settings.clear_all_backups, the question answered yes
clear_all_backups(s) ==
    save_backup_index(
      [s EXCEPT !.backup_files = RemoveFiles(@, list_backups(s.backup_index),
                                               "remove" \notin s.faults),
                !.backup_index = <<>>])

----------------------------------------------------------------------------
(* Actions *)

\* time passes
Tick ==
    /\ \E t \in Instants : t > now /\ now' = t
    /\ op' = [name |-> "clock", file |-> None, status |-> "forward", n |-> 0,
              err |-> FALSE, made |-> <<>>]
    /\ UNCHANGED <<supplements, files, settings, settings_file, backup_index,
                   index_file, backup_files, last_backup_time, backup_dir_ok,
                   backup_settings, theme_settings, shelved>>

\* the clock of the machine is set back
ClockBack ==
    /\ \A i \in 1..Len(supplements) : supplements[i].current_count <= MaxCount
    /\ \E t \in Instants : t < now /\ now' = t
    /\ op' = [name |-> "clock", file |-> None, status |-> "back", n |-> 0,
              err |-> FALSE, made |-> <<>>]
    /\ UNCHANGED <<supplements, files, settings, settings_file, backup_index,
                   index_file, backup_files, last_backup_time, backup_dir_ok,
                   backup_settings, theme_settings, shelved>>

Add(inputs) ==
    /\ Len(supplements) < MaxItems
    /\ \E e \in inputs :
         LET s == add_supplement(Cur, e, now)
         IN  Commit(s) /\ Ran("add", DefaultFile,
                              IF e.valid THEN "ok" ELSE "invalid", 0, s)
    /\ UNCHANGED now

Edit(inputs) ==
    /\ \E index \in 1..Len(supplements), e \in inputs :
         LET s == update_supplement(Cur, index, e, now)
         IN  Commit(s) /\ Ran("edit", DefaultFile,
                              IF e.valid THEN "ok" ELSE "invalid", index, s)
    /\ UNCHANGED now

Remove ==
    /\ \E rows \in SUBSET (1..Len(supplements)) :
         /\ rows # {}
         /\ LET s == remove_selected(Cur, rows, now)
            IN  Commit(s) /\ Ran("remove", DefaultFile, "ok", Cardinality(rows), s)
    /\ UNCHANGED now

\* the search term changes: the list is shown again
Refresh ==
    /\ LET s == update_list(Cur, now)
           changed == {i \in 1..Len(supplements) :
                         s.supplements[i].current_count
                           # supplements[i].current_count}
       IN  Commit(s) /\ Ran("refresh", None, "ok", Cardinality(changed), s)
    /\ UNCHANGED now

SaveKey ==
    /\ LET s == save_with_feedback(Cur, now)
       IN  Commit(s) /\ Ran("save", settings.last_file,
                            IF s.err THEN "failed" ELSE "ok", 0, s)
    /\ UNCHANGED now

SaveAs(paths) ==
    /\ \E filename \in paths :
         LET s == save_as(Cur, filename, now)
         IN  Commit(s) /\ Ran("save_as", filename, "ok", 0, s)
    /\ UNCHANGED now

Load ==
    /\ \E filename \in Paths :
         LET s == load_supplements(Cur, filename, now)
             status == load_status(files, filename)
         IN  Commit(s) /\ Ran("load", filename, status,
                              IF status = "ok"
                              THEN timedelta_days(now,
                                     strptime(json_load(files[filename]).save_date))
                              ELSE 0, s)
    /\ UNCHANGED now

\* the list is shown again while operations on the backup directory fail
RefreshFaulty ==
    /\ \E faults \in SUBSET Faults :
         /\ faults # {}
         /\ LET s == update_list([Cur EXCEPT !.faults = faults], now)
            IN  Commit(s) /\ Ran("refresh_faulty", None, "ok",
                                 Cardinality(faults), s)
    /\ UNCHANGED now

\* the backup dialog: a listed backup is restored
RestoreBackup ==
    /\ backup_index # <<>>
    /\ \E row \in 1..Len(backup_index) :
         LET backup == list_backups(backup_index)[row]
             s == restore_backup(Cur, backup, now)
         IN  Commit(s) /\ Ran("restore", settings.last_file,
                              IF s.err THEN "failed" ELSE "ok", row, s)
    /\ UNCHANGED now

\* the minimum intervals of the backup policies
Intervals == {DefaultInterval, 1440}

\* the settings dialog is saved with another number of backups to keep or
\* another directory, the other entries as show_settings filled them in
SaveSettings(dirs) ==
    /\ \E max_backups \in 1..MaxKeep, backup_dir \in dirs :
         LET s == save_backup_settings(Cur, max_backups, backup_dir,
                                       settings.backup.compression_enabled,
                                       settings.backup.min_backup_interval_minutes)
         IN  Commit(s) /\ Ran("settings", None,
                              IF s.err THEN "failed" ELSE "ok", max_backups, s)
    /\ UNCHANGED now

\* the theme button
ToggleTheme ==
    /\ LET s == toggle_theme(Cur)
       IN  Commit(s) /\ Ran("theme", None, "ok", 0, s)
    /\ UNCHANGED now

ClearAllBackups ==
    /\ LET s == clear_all_backups(Cur)
       IN  Commit(s) /\ Ran("clear", None, "ok", 0, s)
    /\ UNCHANGED now

\* an inventory file as an older version of the program wrote it: no
\* auto_decrement
OldDict ==
    [name |-> "a", current_count |-> 2, initial_count |-> 3, cost |-> 10,
     tags |-> <<"x">>, link |-> "", daily_dose |-> 1, last_updated |-> 0]

\* what a file may hold that this run of the program did not write
ExternalDocs ==
    { NotJson,
      json_dump([save_date |-> 0]),
      json_dump([supplements |-> <<[name |-> "a"]>>, save_date |-> 0]),
      json_dump([supplements |-> <<OldDict>>]),
      json_dump([supplements |-> <<OldDict>>, save_date |-> BadDate]),
      json_dump([supplements |-> <<OldDict>>, save_date |-> 1]) }

\* a file is put in place from outside the program
ExternalWrite ==
    /\ files[OtherFile] = Absent
    /\ \E doc \in ExternalDocs : files' = [files EXCEPT ![OtherFile] = doc]
    /\ op' = [name |-> "external", file |-> OtherFile, status |-> "ok",
              n |-> 0, err |-> FALSE, made |-> <<>>]
    /\ UNCHANGED <<now, supplements, settings, settings_file, backup_index,
                   index_file, backup_files, last_backup_time, backup_dir_ok,
                   backup_settings, theme_settings, shelved>>

----------------------------------------------------------------------------
(* The inventory: a first start with no file and the default settings, on  *)
(* a machine whose backup directory cannot be written, so that every       *)
(* create_backup fails at its copy.  The backups are SpecBackup's.         *)

Policy(max_backups, compression_enabled, interval) ==
    [max_backups |-> max_backups, backup_dir |-> DefaultDir,
     compression_enabled |-> compression_enabled,
     min_backup_interval_minutes |-> interval]

\* a backup directory that holds nothing
EmptyDir == [backup_files |-> << >>, index_file |-> Absent]

\* load_settings and BackupManager.__init__
Constructed(last_file, policy, dir_ok) ==
    [supplements |-> <<>>,
     files |-> [p \in Disk |-> Absent],
     settings |-> [theme |-> "dark", last_file |-> last_file, backup |-> policy],
     settings_file |-> Absent,
     backup_index |-> <<>>,
     index_file |-> Absent,
     backup_files |-> << >>,
     last_backup_time |-> 0,
     backup_dir_ok |-> dir_ok,
     backup_settings |-> policy,
     theme_settings |-> [theme |-> "dark", last_file |-> last_file,
                         backup |-> policy],
     shelved |-> EmptyDir,
     err |-> FALSE, made |-> <<>>, faults |-> FaultsOf(dir_ok)]

StartsAs(s, status) ==
    /\ supplements = s.supplements
    /\ files = s.files
    /\ settings = s.settings
    /\ settings_file = s.settings_file
    /\ backup_index = s.backup_index
    /\ index_file = s.index_file
    /\ backup_files = s.backup_files
    /\ last_backup_time = s.last_backup_time
    /\ backup_dir_ok = s.backup_dir_ok
    /\ backup_settings = s.backup_settings
    /\ theme_settings = s.theme_settings
    /\ shelved = s.shelved
    /\ op = [name |-> "start", file |-> DefaultFile, status |-> status,
             n |-> 0, err |-> s.err, made |-> s.made]

\* load_settings: settings.json when it is there and can be read, the
\* defaults otherwise
load_settings(s) ==
    IF json_load_ok(s.settings_file)
    THEN json_load(s.settings_file)
    ELSE [theme |-> "dark", last_file |-> None,
          backup |-> Policy(DefaultMaxBackups, FALSE, DefaultInterval)]

\* BackupManager._load_backup_index
load_backup_index(s) ==
    IF json_load_ok(s.index_file) THEN json_load(s.index_file) ELSE <<>>

\* SupplementTracker.on_closing; save is the answer to "save changes?"
on_closing(s, save, t) ==
    IF s.supplements = <<>>
    THEN s
    ELSE IF save
    THEN save_supplements(s, s.settings.last_file, TRUE, t)
    ELSE IF s.settings.last_file # None
    THEN create_backup(s, s.settings.last_file, FALSE, t)
    ELSE s

\* SupplementTracker.__init__ of the next run, on the disk s has left:
\* the settings are read again, by the tracker and by the theme, the
\* manager works in the backup directory they name and reads its index,
\* last_backup_time is 0
tracker_init(s, t) ==
    LET loaded == load_settings(s)
        moved == loaded.backup.backup_dir # s.backup_settings.backup_dir
        left == [backup_files |-> s.backup_files, index_file |-> s.index_file]
        found == IF moved THEN s.shelved ELSE left
        made == [s EXCEPT !.supplements = <<>>,
                          !.settings = loaded,
                          !.theme_settings = loaded,
                          !.backup_settings = loaded.backup,
                          !.backup_files = found.backup_files,
                          !.index_file = found.index_file,
                          !.shelved = IF moved THEN left ELSE @,
                          !.last_backup_time = 0]
        started == [made EXCEPT !.backup_index = load_backup_index(made)]
    IN  load_supplements(started,
                         IF loaded.last_file # None
                              /\ exists(s.files, loaded.last_file)
                         THEN loaded.last_file
                         ELSE DefaultFile,
                         t)

\* the window is closed, the question whether to save answered with one of
\* answers, and the program is started again
Restart(answers) ==
    /\ \E save \in answers :
         LET s == tracker_init(on_closing(Cur, save, now), now)
         IN  Commit(s) /\ Ran("restart", s.settings.last_file,
                              IF save THEN "saved" ELSE "closed", 0, s)
    /\ UNCHANGED now

\* SupplementTracker.__init__ with no initial file and no last file
Init ==
    /\ now = 0
    /\ StartsAs(load_supplements(
                  Constructed(None,
                              Policy(DefaultMaxBackups, FALSE, DefaultInterval),
                              FALSE),
                  DefaultFile, now),
                "absent")

Next ==
    \/ Tick
    \/ ClockBack
    \/ Add(DialogInputs)
    \/ Edit(DialogInputs)
    \/ Remove
    \/ Refresh
    \/ SaveKey
    \/ Load

Spec == Init /\ [][Next]_vars

----------------------------------------------------------------------------
(* The files: the same start, with files put in place from outside, Save   *)
(* As and a second path                                                    *)

FileInputs == {e \in DialogInputs : e.name \in {"a", "c"}}

NextFiles ==
    \/ Tick
    \/ Add(FileInputs)
    \/ Refresh
    \/ SaveKey
    \/ SaveAs(Paths)
    \/ Load
    \/ ExternalWrite

SpecFiles == Init /\ [][NextFiles]_vars

----------------------------------------------------------------------------
(* The backups: a start on the file and the settings.json an earlier run   *)
(* left, the backup directory empty and writable                           *)

EarlierItem ==
    Supplement("a", 3, 3, 10, <<"x", "x">>, "", 1, TRUE, 0)

\* the disk an earlier run left, as __init__ finds it
Earlier(policy) ==
    LET made == Constructed(DefaultFile, policy, TRUE)
    IN  [made EXCEPT
           !.files[DefaultFile] = json_dump(SaveData(<<EarlierItem>>, 0)),
           !.settings_file = json_dump(made.settings)]

\* SupplementTracker.__init__ loading the last file
InitBackup ==
    /\ now = 0
    /\ \E max_backups \in 1..MaxKeep, compression_enabled \in BOOLEAN,
          interval \in Intervals :
         StartsAs(load_supplements(
                    Earlier(Policy(max_backups, compression_enabled, interval)),
                    DefaultFile, now),
                  "ok")

\* time passes, up to the last day the backups are followed
TickBackup == Tick /\ strftime(now') <= BackupDays

NextBackup ==
    \/ TickBackup
    \/ Refresh
    \/ RestoreBackup
    \/ ClearAllBackups

SpecBackup == InitBackup /\ [][NextBackup]_vars

----------------------------------------------------------------------------
(* The sessions: the same start, and the program closed and started again  *)

NextSession ==
    \/ TickBackup
    \/ Refresh
    \/ SaveAs({GzFile})
    \/ RestoreBackup
    \/ Restart(BOOLEAN)

SpecSession == InitBackup /\ [][NextSession]_vars

----------------------------------------------------------------------------
(* The failures: the same start, and saves whose backup fails in part      *)

NextFaults ==
    \/ TickBackup
    \/ Refresh
    \/ RefreshFaulty
    \/ RestoreBackup

SpecFaults == InitBackup /\ [][NextFaults]_vars

----------------------------------------------------------------------------
(* The settings: a start on one policy, with the settings dialog and the   *)
(* program closed and started again                                        *)

InitSettings ==
    /\ now = 0
    /\ \E compression_enabled \in BOOLEAN :
         StartsAs(load_supplements(
                    Earlier(Policy(MaxKeep, compression_enabled, DefaultInterval)),
                    DefaultFile, now),
                  "ok")

\* time passes within the day
TickToday == Tick /\ strftime(now') = strftime(now)

NextSettings ==
    \/ TickToday
    \/ Refresh
    \/ SaveSettings(Dirs)
    \/ ClearAllBackups
    \/ Restart({TRUE})

SpecSettings == InitSettings /\ [][NextSettings]_vars

----------------------------------------------------------------------------
(* The theme: the same start, with the theme button, the settings dialog   *)
(* and saves under another path                                            *)

NextTheme ==
    \/ TickToday
    \/ Refresh
    \/ SaveKey
    \/ SaveAs(Paths)
    \/ SaveSettings(Dirs)
    \/ ToggleTheme

SpecTheme == InitSettings /\ [][NextTheme]_vars

----------------------------------------------------------------------------
(* The clock: the backups of one policy, on a machine whose clock is set   *)
(* back                                                                    *)

NextClock ==
    \/ TickBackup
    \/ ClockBack
    \/ Refresh
    \/ RestoreBackup

SpecClock == InitBackup /\ [][NextClock]_vars

----------------------------------------------------------------------------
(* Properties *)

Today == strftime(now)
TimeOfDay == now - strptime(Today)

\* C1: update_count is idempotent within a calendar day: once the list has
\* been refreshed (update_count on every item), a second update_count at
\* any time of the same day leaves every item as the first call left it.
C1_IdempotentWithinDay ==
    op.name = "refresh" =>
        \A i \in 1..Len(supplements) :
            \A t \in Instants :
                strftime(t) = Today =>
                    update_count(supplements[i], t) = supplements[i]

\* a refresh changed a count, and an item is left that a second decrement
\* would change
C1_Witness ==
    /\ op.name = "refresh"
    /\ op.n > 0
    /\ \E i \in 1..Len(supplements) :
         /\ supplements[i].auto_decrement
         /\ supplements[i].daily_dose > 0
         /\ supplements[i].current_count > 0
         /\ supplements[i].last_updated = Today

\* C2: an item whose last_updated is later than the current date counts as
\* 0 days passed: the refresh leaves the count of such an auto-decrement
\* item as it was and sets last_updated to the current date.
C2_FutureDateIsZeroDays ==
    [][op'.name = "refresh" =>
         \A i \in 1..Len(supplements) :
             (supplements[i].auto_decrement
                /\ supplements[i].last_updated > Today) =>
                 /\ supplements'[i].current_count = supplements[i].current_count
                 /\ supplements'[i].last_updated = Today]_vars

\* C3: no item of the inventory ever has a negative current_count.
C3_CountNeverNegative ==
    \A i \in 1..Len(supplements) : supplements[i].current_count >= 0

\* C4: the refresh takes an auto-decrement item whose last_updated is d >= 0
\* days before the current date to max(0, count - d * dose), dated today.
C4_DecayByWholeDays ==
    [][op'.name = "refresh" =>
         \A i \in 1..Len(supplements) :
             LET d == Today - supplements[i].last_updated
             IN  (supplements[i].auto_decrement /\ d >= 0) =>
                     /\ supplements'[i].current_count
                          = max(0, supplements[i].current_count
                                     - d * supplements[i].daily_dose)
                     /\ supplements'[i].last_updated = Today]_vars

\* a refresh later in the day than midnight has taken item "a" from 3 to 1:
\* two days of one dose
C4_Witness ==
    /\ op.name = "refresh"
    /\ op.n > 0
    /\ TimeOfDay > 0
    /\ \E i \in 1..Len(supplements) :
         /\ supplements[i].name = "a"
         /\ supplements[i].auto_decrement
         /\ supplements[i].current_count = 1
         /\ supplements[i].last_updated = Today

StaticFields == {"name", "initial_count", "cost", "tags", "link",
                 "daily_dose", "auto_decrement"}

AutoOf(d) == IF "auto_decrement" \in DOMAIN d THEN d.auto_decrement ELSE TRUE

C7_FailedLoadKeepsStore ==
    [][(op'.name = "load" /\ op'.status # "ok") =>
         supplements' = supplements]_vars

\* how many times a record is in an index
Count(index, r) == Cardinality({i \in 1..Len(index) : index[i] = r})

Records(index) == {index[i] : i \in 1..Len(index)}

\* C8: cleanup_old_backups leaves min(n, max_backups) of the n records, the
\* ones with the latest timestamps; the file of every evicted record is
\* gone and the file of every kept record is still there.  It is run on
\* the index as create_backup hands it over, the new record appended.
C8_CleanupKeepsLatest ==
    \A source_file \in Paths, is_auto_save \in BOOLEAN :
      exists(files, source_file) =>
        LET before == record_backup(Cur, source_file, is_auto_save, now)
            after == cleanup_old_backups(before)
            had == before.backup_index
            kept == after.backup_index
            evicted == {r \in Records(had) : Count(kept, r) < Count(had, r)}
        IN  /\ Len(kept) = min(Len(had), backup_settings.max_backups)
            /\ \A r \in Records(kept) : Count(kept, r) <= Count(had, r)
            /\ \A r \in evicted : \A k \in Records(kept) :
                   k.timestamp >= r.timestamp
            /\ \A r \in evicted : r.filename \notin DOMAIN after.backup_files
            /\ \A k \in Records(kept) :
                   k.filename \in DOMAIN before.backup_files =>
                       k.filename \in DOMAIN after.backup_files

\* C9: create_backup never overwrites an artifact: every backup it makes is
\* stored under a name no artifact had, and the artifacts that stay keep
\* their bytes.
C9_NeverOverwrites ==
    [][/\ \A k \in 1..Len(op'.made) : op'.made[k] \notin DOMAIN backup_files
       /\ \A f \in DOMAIN backup_files \cap DOMAIN backup_files' :
              backup_files'[f] = backup_files[f]]_vars

\* C10: should_create_backup(is_auto_save=False) is true whatever the last
\* backup time, the current time and the minimum interval are, and so the
\* restore of a backup always makes its manual backup of the last file.
C10_ManualAlwaysEligible ==
    /\ \A t \in Instants : \A interval \in Intervals :
         \A last \in {0, last_backup_time, time_time(t)} :
             should_create_backup(
                 [Cur EXCEPT
                    !.last_backup_time = last,
                    !.backup_settings.min_backup_interval_minutes = interval],
                 FALSE, t)
    /\ op.name = "restore" => op.made # <<>>

\* the restore has made a manual backup sooner after another backup than
\* the minimum interval
C10_Witness ==
    /\ op.name = "restore"
    /\ op.made # <<>>
    /\ \E i, j \in 1..Len(backup_index) :
         /\ i # j
         /\ ~backup_index[j].is_auto
         /\ backup_index[j].timestamp = now
         /\ now - backup_index[i].timestamp
              < backup_settings.min_backup_interval_minutes * SecondsPerMinute

\* whether the step has put an automatic backup, made now, on the index
NewAutoBackup ==
    \E r \in Records(backup_index') :
        /\ r.is_auto
        /\ r.timestamp = now'
        /\ Count(backup_index', r) > Count(backup_index, r)

\* C11: no automatic backup is made sooner than the configured minimum
\* interval after the most recent backup the index records, whether that
\* one was made in this session or in an earlier one.
C11_AutoBackupKeepsInterval ==
    [][NewAutoBackup =>
         \A q \in Records(backup_index) :
             now' - q.timestamp
               >= settings'.backup.min_backup_interval_minutes
                    * SecondsPerMinute]_vars

\* C12: create_backup changes nothing and returns None when the source
\* file is not there or should_create_backup is false: the index in memory
\* and on disk, the artifacts and last_backup_time are as they were.  So
\* for the function on every state, and so for the display refresh whose
\* automatic save is not due a backup.
C12_NoBackupChangesNothing ==
    [][/\ \A source \in Paths : \A is_auto \in BOOLEAN : \A t \in Instants :
            (~exists(files, source) \/ ~should_create_backup(Cur, is_auto, t))
               => create_backup(Cur, source, is_auto, t) = Cur
       /\ (op'.name = "refresh" /\ ~should_create_backup(Cur, TRUE, now)) =>
            /\ op'.made = <<>>
            /\ UNCHANGED <<backup_index, index_file, backup_files,
                           last_backup_time>>]_vars

\* a display refresh has saved the inventory sooner after a backup than
\* the minimum interval, and a path whose file is absent is at hand
C12_Witness ==
    /\ op.name = "refresh"
    /\ op.made = <<>>
    /\ supplements # <<>>
    /\ settings.last_file # None
    /\ backup_index # <<>>
    /\ ~should_create_backup(Cur, TRUE, now)
    /\ \E source \in Paths : ~exists(files, source)

\* the names the index lists, and one no backup has had
ListedNames ==
    {backup_index[i].filename : i \in 1..Len(backup_index)}
        \cup {BackupName(now, MaxKeep + 1, ".sup", FALSE)}

\* C13: restore_from_backup on a name that is not in the backup directory
\* returns False and changes nothing; the restore dialog then reports the
\* failure and leaves the target file and the inventory in memory as they
\* were, and the index as the manual backup before the restore left it.
C13_RestoreOfMissingBackupFails ==
    [][/\ \A b \in ListedNames \ DOMAIN backup_files : \A target \in Paths :
            restore_from_backup(Cur, b, target) = [state |-> Cur, ok |-> FALSE]
       /\ op'.name = "restore" =>
            LET backup == list_backups(backup_index)[op'.n]
                kept == create_backup(Cur, settings.last_file, FALSE, now)
            IN  backup.filename \notin DOMAIN kept.backup_files =>
                  /\ op'.err
                  /\ files' = files
                  /\ supplements' = supplements
                  /\ backup_index' = kept.backup_index
                  /\ index_file' = kept.index_file]_vars

\* the restore of a listed backup whose file is gone has failed
C13_Witness ==
    /\ op.name = "restore"
    /\ op.status = "failed"
    /\ op.err
    /\ supplements # <<>>

\* C14: the backup of a file, whatever its name and content, restored to a
\* target gives the target the bytes the file had when it was backed up,
\* whether compression is enabled or not at the backup and at the restore.
C14_BackupRestoreRoundTrip ==
    \A source \in Disk : \A target \in Disk :
      \A at_backup \in BOOLEAN : \A at_restore \in BOOLEAN :
        exists(files, source) =>
          LET kept == create_backup(
                        [Cur EXCEPT !.faults = {},
                                    !.backup_settings.compression_enabled
                                        = at_backup],
                        source, FALSE, now)
              restored == restore_from_backup(
                            [kept EXCEPT !.backup_settings.compression_enabled
                                             = at_restore],
                            kept.made[Len(kept.made)], target)
          IN  /\ kept.made # <<>>
              /\ restored.ok
              /\ restored.state.files[target] = files[source]

\* the bytes an artifact holds of the file it was made from
Unpacked(fs, name) == IF name.gz THEN gzip_read(fs[name]) ELSE fs[name]

\* C15: a failed backup never blocks a save: whatever fails in the backup
\* of an automatic save (the copy or the compression, the write of the
\* index, the removal of old backups), no error is shown, the inventory
\* file holds what was just written and last_file is recorded; the file is
\* written before the backup is attempted, so an artifact that is made
\* holds the new content.
C15_FailedBackupNeverBlocksSave ==
    [][(/\ op'.name \in {"refresh", "refresh_faulty"}
        /\ supplements # <<>>
        /\ settings.last_file # None) =>
          /\ ~op'.err
          /\ files'[settings.last_file] = json_dump(SaveData(supplements', now))
          /\ settings'.last_file = settings.last_file
          /\ settings_file' = json_dump(settings')
          /\ \A k \in 1..Len(op'.made) :
                op'.made[k] \in DOMAIN backup_files' =>
                    Unpacked(backup_files', op'.made[k])
                        = files'[settings.last_file]]_vars

\* an automatic save has been made whose backup was copied but could not
\* be written to backup_index.json
C15_Witness ==
    /\ op.name = "refresh_faulty"
    /\ ~op.err
    /\ op.made # <<>>
    /\ index_file # json_dump(backup_index)

\* an automatic save has been made whose backup, due, failed at its copy
C15_WitnessCopy ==
    /\ op.name = "refresh_faulty"
    /\ ~op.err
    /\ op.made = <<>>
    /\ should_create_backup(Cur, TRUE, now)

\* C16: the load of an absent file shows an error exactly when the path is
\* not the default path; the load of the absent default path shows none and
\* leaves the store as it is, empty at startup.  In both cases the settings
\* keep their last_file.
C16_AbsentFileOnLoad ==
    [][/\ (op.name = "start" /\ op.status = "absent") =>
            ~op.err /\ supplements = <<>> /\ settings.last_file = None
       /\ (op'.name = "load" /\ op'.status = "absent") =>
            /\ op'.err <=> op'.file # DefaultFile
            /\ supplements' = supplements
            /\ settings' = settings
            /\ settings_file' = settings_file]_vars

\* a path other than the default one, with no file, has been loaded into a
\* store that holds items
C16_Witness ==
    /\ op.name = "load"
    /\ op.status = "absent"
    /\ op.file # DefaultFile
    /\ op.err
    /\ supplements # <<>>
    /\ settings.last_file = DefaultFile

\* C17: the catch-up decay of the load and update_count agree: for every
\* auto-decrement item, every reference date and every current date and
\* time of day, the load of a file saved on the reference date leaves the
\* item with the count and the last_updated that update_count gives the
\* item whose last_updated is the reference date.
C17_LoadAgreesWithUpdateCount ==
    \A i \in 1..Len(supplements) :
      \A ref \in 0..MaxDay : \A t \in Instants :
        supplements[i].auto_decrement =>
          LET doc == json_dump([supplements |-> <<to_dict(supplements[i])>>,
                                save_date |-> ref])
              loaded == load_supplements(
                          [Cur EXCEPT !.files[OtherFile] = doc],
                          OtherFile, t).supplements[1]
              live == update_count(
                        [supplements[i] EXCEPT !.last_updated = ref], t)
          IN  /\ loaded.current_count = live.current_count
              /\ loaded.last_updated = live.last_updated

\* a file saved a day or more ago has been loaded later in the day than
\* midnight, and an auto-decrement item with a dose is in the store
C17_Witness ==
    /\ op.name = "load"
    /\ op.status = "ok"
    /\ op.n >= 1
    /\ TimeOfDay > 0
    /\ \E i \in 1..Len(supplements) :
         /\ supplements[i].auto_decrement
         /\ supplements[i].daily_dose > 0
         /\ supplements[i].current_count > 0

\* C18: update_count changes nothing of an item whose auto_decrement is
\* false, however many days have passed: so for the function at every
\* instant, and so for every item of the list when it is shown again.
C18_ManualItemUntouched ==
    [][/\ \A i \in 1..Len(supplements) : \A t \in Instants :
            ~supplements[i].auto_decrement =>
                update_count(supplements[i], t) = supplements[i]
       /\ op'.name = "refresh" =>
            \A i \in 1..Len(supplements) :
                ~supplements[i].auto_decrement =>
                    supplements'[i] = supplements[i]]_vars

\* the list has been shown again with an item that does not decrement and
\* was last updated a day or more ago
C18_Witness ==
    /\ op.name = "refresh"
    /\ \E i \in 1..Len(supplements) :
         /\ ~supplements[i].auto_decrement
         /\ supplements[i].daily_dose > 0
         /\ supplements[i].last_updated < Today

\* the items that are used up some day
Dosed == {i \in 1..Len(supplements) : supplements[i].daily_dose # 0}

\* C19: days_remaining is the infinity sentinel for an item whose daily
\* dose is 0 and current_count / daily_dose for any other; the title shows
\* no next depletion when the store is empty or every dose is 0, and else
\* the least days_remaining of the items.
C19_DaysRemaining ==
    /\ \A i \in 1..Len(supplements) : \A t \in Instants :
         LET item == update_count(supplements[i], t)
             days == days_remaining(item)
         IN  IF item.daily_dose = 0
             THEN days = inf
             ELSE /\ days.den > 0
                  /\ days.num * item.daily_dose = item.current_count * days.den
    /\ LET title == update_days_until_empty(supplements)
       IN  IF Dosed = {}
           THEN title = PlainTitle
           ELSE /\ title.next_empty
                /\ \E i \in Dosed : title.days = days_remaining(supplements[i])
                /\ \A i \in Dosed :
                       ~lt(days_remaining(supplements[i]), title.days)

\* the list has been shown with an item of dose 0 in front of an item that
\* is used up in a number of days
C19_Witness ==
    /\ op.name \in {"add", "edit", "refresh"}
    /\ Len(supplements) = 2
    /\ supplements[1].daily_dose = 0
    /\ supplements[2].daily_dose > 0
    /\ supplements[2].current_count > 0

\* the items of supps at the positions that are not in rows, in their order
RECURSIVE Without(_, _)
Without(supps, rows) ==
    IF supps = <<>> THEN <<>>
    ELSE LET front == Without(SubSeq(supps, 1, Len(supps) - 1), rows)
         IN  IF Len(supps) \in rows THEN front
             ELSE Append(front, supps[Len(supps)])

\* C20: remove_selected removes exactly the selected rows: the store is
\* left with the items at the other positions, in their order, each as
\* the display refresh that ends the handler leaves it.
C20_RemovesExactlySelected ==
    [][op'.name = "remove" =>
         \E rows \in SUBSET (1..Len(supplements)) :
             /\ Cardinality(rows) = op'.n
             /\ LET rest == Without(supplements, rows)
                IN  supplements' =
                      [i \in 1..Len(rest) |-> update_count(rest[i], now)]]_vars

\* the item the edit dialog builds for the row index: the entries, with the
\* last_updated of the item it replaces
Edited(e, index) ==
    [FromDialog(e, now) EXCEPT !.last_updated = supplements[index].last_updated]

\* C21: editing the item at position i replaces it with a new item built
\* from the dialog values whose last_updated is that of the item it
\* replaces; the store keeps its length and every item at another position
\* is unchanged.  When the entries do not parse, the store is not changed.
C21_EditReplacesOneItem ==
    [][op'.name = "edit" =>
         IF op'.status = "invalid"
         THEN supplements' = supplements
         ELSE /\ Len(supplements') = Len(supplements)
              /\ \E e \in DialogInputs :
                    e.valid /\ supplements'[op'.n] = Edited(e, op'.n)
              /\ \A j \in 1..Len(supplements) :
                    j # op'.n => supplements'[j] = supplements[j]]_vars

\* C22: when the copy (or the compression) of create_backup fails, the call
\* returns None and raises nothing, no record is added to the index in
\* memory or on disk and last_backup_time is as it was, so that an
\* automatic save that was due is still due: the next call whose copy
\* succeeds makes the backup.
C22_FailedCopyLeavesNoTrace ==
    \A source_file \in Disk, is_auto_save \in BOOLEAN :
      \A faults \in SUBSET Faults :
        "copy" \in faults =>
            LET before == [Cur EXCEPT !.faults = faults]
                after == create_backup(before, source_file, is_auto_save, now)
            IN  /\ after.made = <<>>
                /\ ~after.err
                /\ after.backup_index = backup_index
                /\ after.index_file = index_file
                /\ after.last_backup_time = last_backup_time
                /\ (exists(files, source_file)
                      /\ should_create_backup(before, TRUE, now))
                   => create_backup([after EXCEPT !.faults = {}],
                                    source_file, TRUE, now).made # <<>>

\* the list has been shown while the copy failed, at a time when an
\* automatic backup was due: it is still due
C22_Witness ==
    /\ op.name = "refresh_faulty"
    /\ op.made = <<>>
    /\ supplements # <<>>
    /\ backup_index # <<>>
    /\ exists(files, settings.last_file)
    /\ should_create_backup(Cur, TRUE, now)

\* C23: after every create_backup that returns a backup the index holds at
\* most max_backups records, max_backups being the value the manager works
\* with at that call, whatever backups, settings dialogs and restarts came
\* before.
C23_RetentionBound ==
    [][op'.made # <<>> =>
         /\ Len(backup_index') <= backup_settings'.max_backups
         /\ \A source_file \in Paths, is_auto_save \in BOOLEAN :
              LET after == create_backup(Cur, source_file, is_auto_save, now)
              IN  after.made # <<>> =>
                      Len(after.backup_index) <= backup_settings.max_backups]_vars

\* the program has started with fewer backups to keep than the run before,
\* in the same directory, and has made a backup: the index is at its limit
C23_Witness ==
    /\ op.name = "restart"
    /\ op.made # <<>>
    /\ backup_settings.max_backups < MaxKeep
    /\ backup_settings.backup_dir = DefaultDir
    /\ shelved = EmptyDir
    /\ Len(backup_index) = backup_settings.max_backups

\* what a handler leaves of the backups: the index in memory and on disk,
\* the artifacts and the time of the last backup
BackupState(s) ==
    <<s.backup_index, s.index_file, s.backup_files, s.last_backup_time>>

RestoredFrom(b) ==
    load_supplements(
      [Cur EXCEPT !.files[settings.last_file] = Unpacked(backup_files, b.filename)],
      settings.last_file, now).supplements

\* C25: restoring a backup that the dialog lists, its artifact on disk,
\* succeeds whatever the size of the index: no error is reported and the
\* active file and the store hold what the backup held; the manual backup
\* made first, and its cleanup, do not remove the backup to restore.
C25_RestoreOfListedBackupSucceeds ==
    [][op'.name = "restore" =>
         LET b == list_backups(backup_index)[op'.n]
         IN  b.filename \in DOMAIN backup_files =>
                 /\ ~op'.err
                 /\ supplements' = RestoredFrom(b)]_vars

\* C26: no elapsed day is lost or counted twice across saves and loads: in
\* every inventory file save_supplements has written, the count of each
\* auto-decrement item is current as of the save_date of the file, its
\* last_updated being the save_date, so that a load, which decays from the
\* save_date only, takes off every day since the item was last set.
C26_SavedCountsAreCurrent ==
    \A path \in Disk :
        json_load_ok(files[path]) =>
            LET data == json_load(files[path])
            IN  \A i \in 1..Len(data.supplements) :
                    data.supplements[i].auto_decrement =>
                        data.supplements[i].last_updated = data.save_date

\* C27: the active file stays the file the user opened: after a file other
\* than the default one has been loaded, an add, edit or remove writes the
\* store to it and leaves it the last file of the settings.
C27_ActiveFileStays ==
    [][(/\ op.name = "load" /\ op.status = "ok" /\ op.file = OtherFile
        /\ settings.last_file = OtherFile
        /\ op'.name \in {"add", "edit", "remove"}
        /\ op'.status = "ok")
       => /\ settings'.last_file = OtherFile
          /\ files'[OtherFile] = json_dump(SaveData(supplements', now))
          /\ files'[DefaultFile] = files[DefaultFile]]_vars

\* the settings document on disk
Persisted == json_load(settings_file)

\* C28: the writes of settings.json lose no update: after every handler
\* the document holds the theme chosen last, the last file recorded last
\* and the backup policy the settings dialog was saved with last.
C28_SettingsWritesLoseNothing ==
    /\ Persisted.theme = theme_settings.theme
    /\ Persisted.last_file = settings.last_file
    /\ Persisted.backup = settings.backup

\* C29: the index and the backup directory are consistent after every
\* handler: every record of the index names an artifact of the directory
\* the manager works in, every artifact of it has a record, and the index
\* document on disk is the index in memory.
C29_IndexMatchesDirectory ==
    /\ \A i \in 1..Len(backup_index) :
           backup_index[i].filename \in DOMAIN backup_files
    /\ \A f \in DOMAIN backup_files :
           \E i \in 1..Len(backup_index) : backup_index[i].filename = f
    /\ IF json_load_ok(index_file)
       THEN json_load(index_file) = backup_index
       ELSE backup_index = <<>>

\* C30: a backup that create_backup reports as created survives its own
\* cleanup: when create_backup returns a path, the artifact is in the
\* backup directory and a record of it is in the index, whatever the
\* records the index held, those of the same or a later time included.
C30_NewBackupSurvivesCleanup ==
    \A source_file \in Paths, is_auto_save \in BOOLEAN :
        LET after == create_backup(Cur, source_file, is_auto_save, now)
        IN  after.made # <<>> =>
                LET path == after.made[Len(after.made)]
                IN  /\ path \in DOMAIN after.backup_files
                    /\ \E i \in 1..Len(after.backup_index) :
                           /\ after.backup_index[i].filename = path
                           /\ after.backup_index[i].timestamp = now
                           /\ after.backup_index[i].is_auto = is_auto_save

====
